---- MODULE Spec2Model ----
(***************************************************************************)
(* Chat persistence and DSN synchronisation layer of aimemorybot           *)
(* (src/lib/chat-persistence.ts, with the archive client of                *)
(* src/lib/ai/providers.ts and the useAutoSave hook).                      *)
(*                                                                         *)
(* The browser tab is single threaded: every handler below runs to its     *)
(* next real suspension point (the network upload awaited inside           *)
(* saveChatToDSN) as one atomic action.  Timers are host objects kept in   *)
(* the table `timers`; the module-level maps saveTimers / syncTimer only   *)
(* hold handles into that table.                                           *)
(***************************************************************************)
EXTENDS Integers, Sequences, FiniteSets, TLC

VARIABLES
    chats,       \* localStorage['ai_memory_box_chats']: sequence of ChatSession
    cidMap,      \* localStorage['ai_memory_box_cid_map']: chat id -> cid
    lastSync,    \* localStorage['ai_memory_box_last_sync']
    saveTimers,  \* module-level saveTimers: chat id -> timeout handle
    syncTimer,   \* module-level syncTimer: interval handle or NoTimer
    timers,      \* host table of live (not yet cleared) timers
    uploads,     \* saveChatToDSN calls suspended in `await uploadToAutoDrive`
    sweeps,      \* syncAllChatsToDSN calls suspended in their for-loop
    archive,     \* remote content-addressed store: cid -> uploaded blob
    nUp,         \* number of uploads started so far
    now,         \* Date.now()
    ticks,       \* number of clock advances taken
    nCalls,      \* number of calls the UI has made
    lastOp,      \* history: the handler that ran last and what it returned
    deb,         \* history: per chat id, the current run of saveChat(S, true) calls
    retry,       \* one uploadToAutoDrive / downloadFromAutoDrive call and its withRetry loop
    crypto,      \* one use of the encryption utilities: inputs, blob, result
    store,       \* localStorage as a device: is the chats text JSON, setItem calls made
    contract,    \* the deployed Subscription contract and its balance
    hooks,       \* the mounted useAutoSave consumers
    backup,      \* the backup file written by Export Data, and its import
    memory       \* the message storage of saveMessages / loadMessages

\* the parts of the repository apart from chat persistence, retry,
\* encryption and the storage device
rest == <<contract, hooks, backup, memory>>

\* the state of the utilities the chat persistence does not touch
aside == <<retry, crypto, store, rest>>

vars == <<chats, cidMap, lastSync, saveTimers, syncTimer, timers, uploads,
          sweeps, archive, nUp, now, ticks, nCalls, lastOp, deb, aside>>

(***************************************************************************)
(* Program constants                                                       *)
(***************************************************************************)
debounceMs == 5000
syncIntervalMs == 60000
enabled == TRUE

(***************************************************************************)
(* Bounds of the model                                                     *)
(***************************************************************************)
TickMs == 2500
MaxTicks == 2
MaxUploads == 2
MaxSweeps == 1
MaxCalls == 4
MaxMessages == 2
MaxText == 2        \* code units of an encrypted text, texts of a message array
MaxSpreadArgs == 33 \* arguments a call may take (engine limit, scaled down)
MaxWei == 2         \* value of all payments made to the contract
MaxBlockTime == 2   \* block.timestamp
MaxSaves == 3       \* saveMessages calls

ChatIds == {"s1", "s2"}
Message == "hello"
Wallet == "0xabc"
NoAddr == "undefined"
\* useAutoSave passes the address of the connected account
CallerAddresses == {Wallet}
NoCid == 0
NoTimer == <<"none", "">>
NoTime == -1

Min(S) == CHOOSE x \in S : \A y \in S : x <= y

(***************************************************************************)
(* Local store                                                             *)
(***************************************************************************)
\* chats.findIndex((c) => c.id === id), 1-based, 0 for "not found"
findIndex(cs, id) ==
    IF \E i \in 1..Len(cs) : cs[i].id = id
    THEN Min({i \in 1..Len(cs) : cs[i].id = id})
    ELSE 0

hasChat(cs, id) == findIndex(cs, id) > 0

\* getChatById, for an id that is present
getChatById(cs, id) == cs[findIndex(cs, id)]

\* an upsert that never looks for the stored record and always pushes
upsertChatAlwaysPush(cs, chat, t) ==
    Append(cs, [chat EXCEPT !.updatedAt = t])

\* the upsert of saveChat: {...chat, updatedAt: Date.now()} replaces or is pushed
upsertChat(cs, chat, t) ==
    LET updatedChat == [chat EXCEPT !.updatedAt = t]
        index == findIndex(cs, chat.id)
    IN IF index > 0 THEN [cs EXCEPT ![index] = updatedChat]
       ELSE Append(cs, updatedChat)

\* chats.filter((c) => c.id !== chatId)
filterChats(cs, id) == SelectSeq(cs, LAMBDA c : c.id # id)

getCIDForChat(m, id) == m[id]

(***************************************************************************)
(* Payloads                                                                *)
(***************************************************************************)
\* const data = JSON.stringify(chat): the plaintext JSON of the session
JSONstringify(chat) == [enc |-> FALSE, body |-> chat]

\* JSON.parse(data) of a downloaded payload
JSONparse(data) == data.body

\* dataWithMetadata = { data, metadata } as handed to uploadFileFromBuffer
blobOf(u) ==
    [data |-> u.data,
     metadata |-> [address |-> u.address, timestamp |-> u.started]]

(***************************************************************************)
(* Host timers                                                             *)
(***************************************************************************)
\* The handle setTimeout / setInterval returns, named by what the timer was
\* created for.  Handles are opaque to the code, which only stores them and
\* passes them back to clearTimeout / clearInterval; it clears the handle it
\* holds for an id (or for the periodic sync) before it stores a new one, and
\* a handle whose one-shot timer has fired names no live timer any more.
newHandle(kind, id) == <<kind, id>>

\* clearTimeout / clearInterval: a no-op for a handle that is not live
clearTimer(ts, h) == {tm \in ts : tm.h # h}

timeoutsOf(ts, id) == {tm \in ts : tm.kind = "timeout" /\ tm.chatId = id}
intervalsOf(ts) == {tm \in ts : tm.kind = "interval"}

(***************************************************************************)
(* saveChat: the debounce part                                             *)
(***************************************************************************)
\* saveChat arming the timer with no delay
saveChatTimersNoDelay(ts, st, chat, autoSaveToDSN, t) ==
    IF autoSaveToDSN /\ enabled
    THEN clearTimer(ts, st[chat.id]) \cup
            {[h |-> newHandle("timeout", chat.id), kind |-> "timeout",
              chatId |-> chat.id, address |-> chat.address, due |-> t]}
    ELSE ts

\* saveChat without the clearTimeout of the previous timer
saveChatTimersNoClear(ts, st, chat, autoSaveToDSN, t) ==
    IF autoSaveToDSN /\ enabled
    THEN ts \cup
            {[h |-> newHandle("timeout", chat.id), kind |-> "timeout",
              chatId |-> chat.id, address |-> chat.address,
              due |-> t + debounceMs]}
    ELSE ts

\* saveChat arming the timer whatever autoSaveToDSN says
saveChatTimersAlways(ts, st, chat, autoSaveToDSN, t) ==
    clearTimer(ts, st[chat.id]) \cup
        {[h |-> newHandle("timeout", chat.id), kind |-> "timeout",
          chatId |-> chat.id, address |-> chat.address,
          due |-> t + debounceMs]}

saveChatTimers(ts, st, chat, autoSaveToDSN, t) ==
    IF autoSaveToDSN /\ enabled
    THEN clearTimer(ts, st[chat.id]) \cup
            {[h |-> newHandle("timeout", chat.id), kind |-> "timeout",
              chatId |-> chat.id, address |-> chat.address,
              due |-> t + debounceMs]}
    ELSE ts

saveChatSaveTimers(st, chat, autoSaveToDSN) ==
    IF autoSaveToDSN /\ enabled
    THEN [st EXCEPT ![chat.id] = newHandle("timeout", chat.id)]
    ELSE st

(***************************************************************************)
(* saveChatToDSN                                                           *)
(***************************************************************************)
\* a saveChatToDSN that uploads the session without its messages
startUploadStale(cs, chatId, address, by, n, t) ==
    LET chat == getChatById(cs, chatId)
    IN [n |-> n, id |-> chatId,
        data |-> JSONstringify([chat EXCEPT !.messages = <<>>]),
        address |-> IF address # NoAddr THEN address ELSE chat.address,
        started |-> t, by |-> by]

\* a saveChatToDSN behind a per-session lock: while an upload of the session
\* is in flight the call joins it and starts none
startUploadExclusive(cs, chatId, address, by, n, t) ==
    LET chat == getChatById(cs, chatId)
        busy == {u \in uploads : u.id = chatId}
    IN IF busy # {} THEN CHOOSE u \in busy : TRUE
       ELSE [n |-> n, id |-> chatId, data |-> JSONstringify(chat),
             address |-> IF address # NoAddr THEN address ELSE chat.address,
             started |-> t, by |-> by]

\* the part before `await uploadToAutoDrive`: read the stored session and
\* hand its JSON to the archive client (the session is present)
startUpload(cs, chatId, address, by, n, t) ==
    LET chat == getChatById(cs, chatId)
    IN [n |-> n, id |-> chatId, data |-> JSONstringify(chat),
        address |-> IF address # NoAddr THEN address ELSE chat.address,
        started |-> t, by |-> by]

\* a write-back that keeps the first cid a session got
chatsAfterUploadKeepFirst(cs, chatId, cid) ==
    LET index == findIndex(cs, chatId)
    IN IF cid = NoCid THEN cs
       ELSE IF index > 0 /\ cs[index].cid = NoCid
            THEN [cs EXCEPT ![index].cid = cid]
       ELSE cs

\* a write-back without the `if (!cid) throw` before it
chatsAfterUploadNoCheck(cs, chatId, cid) ==
    LET index == findIndex(cs, chatId)
    IN IF index > 0 THEN [cs EXCEPT ![index].cid = cid] ELSE cs

\* the part after the await: chats[index].cid = cid, unless the upload
\* returned null (cid = NoCid), which throws past the write-back
chatsAfterUpload(cs, chatId, cid) ==
    LET index == findIndex(cs, chatId)
    IN IF cid = NoCid THEN cs
       ELSE IF index > 0 THEN [cs EXCEPT ![index].cid = cid]
       ELSE cs

storeCIDMapping(m, chatId, cid) == [m EXCEPT ![chatId] = cid]

cidMapAfterUpload(m, chatId, cid) ==
    IF cid = NoCid THEN m ELSE storeCIDMapping(m, chatId, cid)

(***************************************************************************)
(* syncAllChatsToDSN                                                       *)
(***************************************************************************)
\* if (!chat.cid || chat.updatedAt > (chat.createdAt || 0))
eligible(chat) ==
    \/ chat.cid = NoCid
    \/ chat.updatedAt > (IF chat.createdAt = 0 THEN 0 ELSE chat.createdAt)

\* The for-loop from position i on: the first entry of the snapshot that is
\* eligible and whose session saveChatToDSN still finds (for a missing one it
\* returns null at once and the loop goes on); 0 when the loop runs out.
nextUploadIndex(cs, snap, i) ==
    LET S == {j \in i..Len(snap) : eligible(snap[j]) /\ hasChat(cs, snap[j].id)}
    IN IF S = {} THEN 0 ELSE Min(S)

\* a loop that a failed upload ends
sweepResumeIndexAbort(s, cid) ==
    IF cid = NoCid THEN Len(s.snap) + 1 ELSE s.i + 1

\* where the for-loop goes on when the awaited saveChatToDSN has returned
\* cid, or null: saveChatToDSN catches every error, so the loop never sees one
sweepResumeIndex(s, cid) == s.i + 1

\* the entries the loop passes from position i on whose saveChatToDSN call
\* throws 'Chat not found'
skippedFrom(cs, snap, i) ==
    LET j == nextUploadIndex(cs, snap, i)
        last == IF j = 0 THEN Len(snap) ELSE j - 1
    IN {snap[k].id : k \in {k \in i..last :
                                eligible(snap[k]) /\ ~hasChat(cs, snap[k].id)}}

RECURSIVE reservedBy(_)
reservedBy(S) ==
    IF S = {} THEN 0
    ELSE LET s == CHOOSE x \in S : TRUE
         IN (Len(s.snap) - s.i) + reservedBy(S \ {s})

\* uploads the running sweeps may still start
Reserved == reservedBy(sweeps)

(***************************************************************************)
(* startAutoSync / stopAutoSync / deleteChat: the timer part               *)
(***************************************************************************)
\* startAutoSync without the clearInterval of the previous timer
startAutoSyncTimersNoClear(ts, sy, address, t) ==
    ts \cup {[h |-> newHandle("interval", ""), kind |-> "interval",
              chatId |-> "", address |-> address, due |-> t + syncIntervalMs]}

startAutoSyncTimers(ts, sy, address, t) ==
    IF enabled
    THEN clearTimer(ts, sy) \cup
            {[h |-> newHandle("interval", ""), kind |-> "interval",
              chatId |-> "", address |-> address,
              due |-> t + syncIntervalMs]}
    ELSE clearTimer(ts, sy)

startAutoSyncHandle(sy) ==
    IF enabled THEN newHandle("interval", "") ELSE sy

stopAutoSyncTimers(ts, sy) == clearTimer(ts, sy)

\* deleteChat without the clearTimeout
deleteChatTimersKept(ts, st, chatId) == ts

deleteChatTimers(ts, st, chatId) == clearTimer(ts, st[chatId])

deleteChatCidMap(m, chatId) == [m EXCEPT ![chatId] = NoCid]

(***************************************************************************)
(* History of the debounce path, kept per chat id: the current run of      *)
(* saveChat(S, true) calls in which each call came less than debounceMs    *)
(* after the one before.                                                   *)
(*   calls  = length of the run (0 none, 2 stands for "two or more")       *)
(*   fired  = uploads the debounce timers started since the run began      *)
(*   last   = time of the last call of the run                             *)
(*   stored = <<record>> written by that call, <<>> once something else    *)
(*            has rewritten the record of this id                          *)
(***************************************************************************)
NoRun == [calls |-> 0, fired |-> 0, last |-> NoTime, stored |-> <<>>]

debAfterSave(d, chat, autoSaveToDSN, t) ==
    LET r == d[chat.id]
        continues == r.calls >= 1 /\ t < r.last + debounceMs
    IN IF autoSaveToDSN /\ enabled
       THEN [d EXCEPT ![chat.id] =
                [calls |-> IF continues THEN 2 ELSE 1,
                 fired |-> IF continues THEN r.fired ELSE 0,
                 last |-> t,
                 stored |-> <<[chat EXCEPT !.updatedAt = t]>>]]
       ELSE [d EXCEPT ![chat.id].stored = <<>>]

debAfterFire(d, id) ==
    [d EXCEPT ![id].fired = IF @ < 2 THEN @ + 1 ELSE @]

debTouched(d, id) == [d EXCEPT ![id].stored = <<>>]

\* skipped: the ids for which a saveChatToDSN call of the step found no
\* stored session and returned null
Op(op, id, n, cid) ==
    [op |-> op, id |-> id, n |-> n, cid |-> cid, skipped |-> {}]

(***************************************************************************)
(* withRetry and the archive calls that go through retryDSNOperation       *)
(***************************************************************************)
DEFAULT_RETRY_CONFIG ==
    [maxAttempts |-> 3, initialDelay |-> 1000, maxDelay |-> 10000,
     backoffMultiplier |-> 2]

\* the overrides of retryDSNOperation; shouldRetry stays the default
retryDSNConfig ==
    [DEFAULT_RETRY_CONFIG EXCEPT !.maxAttempts = 4, !.maxDelay = 16000]

\* what an attempt of the archive client can throw, by cause
TransientCauses == {"network", "server5xx"}
PermanentCauses == {"quotaExceeded", "notFound", "auth4xx"}
WalletCauses == {"actionRejected", "insufficientBalance"}
NoError == "none"

\* DEFAULT_RETRY_CONFIG.shouldRetry: false for a WalletError with code
\* ACTION_REJECTED and for an InsufficientBalanceError, true otherwise
shouldRetry(error) ==
    IF error = "actionRejected" THEN FALSE
    ELSE IF error = "insufficientBalance" THEN FALSE
    ELSE TRUE

\* a last-attempt test that is one off
isLastAttemptLate(attempt, config) == attempt = config.maxAttempts + 1

isLastAttempt(attempt, config) == attempt = config.maxAttempts

\* a delay without the cap
calculateDelayUncapped(attempt, config) ==
    config.initialDelay * config.backoffMultiplier ^ (attempt - 1)

calculateDelay(attempt, config) ==
    LET delay == config.initialDelay * config.backoffMultiplier ^ (attempt - 1)
    IN IF delay < config.maxDelay THEN delay ELSE config.maxDelay

\* phase: idle, calling (inside `await operation()`), sleeping (inside
\* `await sleep(delay)`), returned (the wrapper returned a value), failed
\* (withRetry threw, or the client was missing; the wrapper returned null)
NoRetry ==
    [phase |-> "idle", op |-> "none", config |-> DEFAULT_RETRY_CONFIG,
     attempt |-> 0, calls |-> 0, slept |-> <<>>, errors |-> <<>>,
     lastError |-> NoError]

(***************************************************************************)
(* Encryption utilities.  A JavaScript string is a sequence of code units: *)
(* "a" an ASCII letter, "BOM" U+FEFF, "HI" a surrogate without its pair,   *)
(* "FFFD" the replacement character, and the ASCII signs of a JSON text.   *)
(* A byte is named by its hex value, an ASCII byte by its character.       *)
(***************************************************************************)
Chars == {"a", "BOM", "HI"}

\* TextEncoder.encode: UTF-8; a lone surrogate is encoded as U+FFFD
utf8Of(c) ==
    IF c = "BOM" THEN <<"EF", "BB", "BF">>
    ELSE IF c = "HI" \/ c = "FFFD" THEN <<"EF", "BF", "BD">>
    ELSE <<c>>

RECURSIVE TextEncode(_)
TextEncode(str) ==
    IF str = <<>> THEN <<>> ELSE utf8Of(Head(str)) \o TextEncode(Tail(str))

RECURSIVE utf8Decode(_)
utf8Decode(bytes) ==
    IF bytes = <<>> THEN <<>>
    ELSE IF Len(bytes) >= 3 /\ SubSeq(bytes, 1, 3) = <<"EF", "BB", "BF">>
         THEN <<"BOM">> \o utf8Decode(SubSeq(bytes, 4, Len(bytes)))
    ELSE IF Len(bytes) >= 3 /\ SubSeq(bytes, 1, 3) = <<"EF", "BF", "BD">>
         THEN <<"FFFD">> \o utf8Decode(SubSeq(bytes, 4, Len(bytes)))
    ELSE IF Head(bytes) \in {"EF", "BB", "BF", "BD"}
         THEN <<"FFFD">> \o utf8Decode(Tail(bytes))
    ELSE <<Head(bytes)>> \o utf8Decode(Tail(bytes))

\* new TextDecoder().decode: ignoreBOM is false, a leading BOM is dropped
TextDecode(bytes) ==
    LET str == utf8Decode(bytes)
    IN IF str # <<>> /\ Head(str) = "BOM" THEN Tail(str) ELSE str

\* JSON.stringify of an array of message texts: [ "..." , "..." ], a lone
\* surrogate written as its \\uXXXX escape (one sign "uHI" here)
RECURSIVE jsonEscape(_)
jsonEscape(str) ==
    IF str = <<>> THEN <<>>
    ELSE <<IF Head(str) = "HI" THEN "uHI" ELSE Head(str)>> \o jsonEscape(Tail(str))

RECURSIVE jsonItems(_)
jsonItems(messages) ==
    IF messages = <<>> THEN <<>>
    ELSE <<"q">> \o jsonEscape(Head(messages)) \o <<"q">>
         \o (IF Len(messages) > 1 THEN <<",">> ELSE <<>>)
         \o jsonItems(Tail(messages))

messagesToJSON(messages) == <<"[">> \o jsonItems(messages) \o <<"]">>

\* JSON.parse of such a text: the strings between the quotes, unescaped
RECURSIVE jsonUnescape(_)
jsonUnescape(str) ==
    IF str = <<>> THEN <<>>
    ELSE <<IF Head(str) = "uHI" THEN "HI" ELSE Head(str)>> \o jsonUnescape(Tail(str))

RECURSIVE jsonStrings(_, _, _)
jsonStrings(str, inside, cur) ==
    IF str = <<>> THEN <<>>
    ELSE IF Head(str) = "q"
         THEN IF inside
              THEN <<jsonUnescape(cur)>> \o jsonStrings(Tail(str), FALSE, <<>>)
              ELSE jsonStrings(Tail(str), TRUE, <<>>)
    ELSE IF inside THEN jsonStrings(Tail(str), TRUE, Append(cur, Head(str)))
    ELSE jsonStrings(Tail(str), FALSE, cur)

messagesFromJSON(str) == jsonStrings(str, FALSE, <<>>)

\* String.prototype.toLowerCase on the addresses used
toLowerCase(address) == IF address = "0xABC" THEN "0xabc" ELSE address

\* the key PBKDF2 derives is named by its password and salt
deriveKeyOfAddress(address) ==
    <<toLowerCase(address), "ai-memory-box-v1", "ai-memory-box-v1">>

generatePasswordFromAddress(address) ==
    <<"aimemorybox_", toLowerCase(address), "_encryption_key">>

deriveKey(password, salt) == password \o <<salt>>

\* A blob: what encrypt produced, as a text.  null: encryptData returned
\* null; valid: the text is base64 (JSON for encryptMessages of
\* lib/encryption.ts); key, iv, bytes: the AES-GCM ciphertext and tag are
\* those of these bytes under this key and iv; cut: bytes missing at the
\* end; flipped: a byte was changed.
NoBlob ==
    [null |-> TRUE, valid |-> TRUE, key |-> <<>>, salt |-> "", iv |-> "",
     bytes |-> <<>>, cut |-> 0, flipped |-> FALSE]

Blob(key, salt, iv, bytes) ==
    [null |-> FALSE, valid |-> TRUE, key |-> key, salt |-> salt, iv |-> iv,
     bytes |-> bytes, cut |-> 0, flipped |-> FALSE]

\* crypto.subtle.decrypt accepts the blob: AES-GCM checks the tag, so the
\* key, the iv and every byte must be those of the encryption
aesGcmOpens(blob, key) ==
    /\ ~blob.null
    /\ blob.valid
    /\ blob.cut = 0
    /\ ~blob.flipped
    /\ blob.key = key

\* a value returned or an exception thrown by a decrypt function
Returned(str, messages) ==
    [threw |-> FALSE, null |-> FALSE, str |-> str, messages |-> messages]
ReturnedNull ==
    [threw |-> FALSE, null |-> TRUE, str |-> <<>>, messages |-> <<>>]
Thrown ==
    [threw |-> TRUE, null |-> FALSE, str |-> <<>>, messages |-> <<>>]

\* part_017 encryptData: String.fromCharCode(...combined) takes one argument
\* per byte of iv, ciphertext and tag; beyond the engine's argument limit it
\* throws a RangeError, which the catch turns into null
encryptData(data, address, iv) ==
    LET bytes == TextEncode(data)
    IN IF 12 + Len(bytes) + 16 > MaxSpreadArgs THEN NoBlob
       ELSE Blob(deriveKeyOfAddress(address), "ai-memory-box-v1", iv, bytes)

\* part_017 decryptData: every error is caught, reported and null returned
\* (atob(null) decodes the text "null" to three bytes, which do not open)
decryptData(blob, address) ==
    IF aesGcmOpens(blob, deriveKeyOfAddress(address))
    THEN Returned(TextDecode(blob.bytes), <<>>)
    ELSE ReturnedNull

\* part_017 encryptMessages / decryptMessages; a thrown encryptMessages
\* leaves no blob
encryptMessagesWithData(messages, address, iv) ==
    encryptData(messagesToJSON(messages), address, iv)

decryptMessagesWithData(blob, address) ==
    LET decrypted == decryptData(blob, address)
    IN IF decrypted.null \/ decrypted.str = <<>> THEN Thrown
       ELSE Returned(<<>>, messagesFromJSON(decrypted.str))

\* lib/encryption.ts encrypt / decrypt with a password; the salt travels
\* with the blob
encrypt(data, password, salt, iv) ==
    Blob(deriveKey(password, salt), salt, iv, TextEncode(data))

decrypt(blob, password) ==
    IF aesGcmOpens(blob, deriveKey(password, blob.salt))
    THEN Returned(TextDecode(blob.bytes), <<>>)
    ELSE Thrown

\* lib/encryption.ts encryptMessages / decryptMessages
encryptMessages(messages, address, salt, iv) ==
    encrypt(messagesToJSON(messages), generatePasswordFromAddress(address),
            salt, iv)

decryptMessages(blob, address) ==
    LET decrypted == decrypt(blob, generatePasswordFromAddress(address))
    IN IF decrypted.threw THEN Thrown
       ELSE Returned(<<>>, messagesFromJSON(decrypted.str))

NoCrypto ==
    [phase |-> "idle", fn |-> "none", data |-> <<>>, messages |-> <<>>,
     address |-> "", blob |-> NoBlob, damage |-> "none",
     with |-> "", out |-> ReturnedNull]

(***************************************************************************)
(* getLocalChats / saveLocalChats on a storage that can fail               *)
(*   corrupt: the text stored under the chats key does not parse           *)
(*   writes:  number of localStorage.setItem calls for the chats key       *)
(*   threw:   an exception has left saveChat or getLocalChats              *)
(***************************************************************************)
NoStore == [corrupt |-> FALSE, writes |-> 0, threw |-> FALSE]

\* try { JSON.parse(getItem) } catch { return [] }
getLocalChats(cs, st) == IF st.corrupt THEN <<>> ELSE cs

\* saveLocalChats without its try/catch: a failing setItem leaves saveChat
\* as an exception
setItemEscapesUncaught(writeOk) == ~writeOk

\* does the error of a failing setItem / JSON.stringify leave saveLocalChats
setItemEscapes(writeOk) == FALSE

\* the persisted collection after saveLocalChats(next)
chatsAfterSetItem(cs, next, writeOk) == IF writeOk THEN next ELSE cs

\* the storage after one saveLocalChats call
storeAfterSetItem(st, writeOk) ==
    [corrupt |-> IF writeOk THEN FALSE ELSE st.corrupt,
     writes |-> st.writes + 1,
     threw |-> setItemEscapes(writeOk)]

(***************************************************************************)
(* Initial state: a fresh browser profile, module just loaded              *)
(***************************************************************************)
(***************************************************************************)
(* The Subscription contract after its constructor ran: the deployer is    *)
(* the owner, no subscription is stored, the balance is zero.  received is *)
(* the value of all accepted payments, lastTx the last accepted            *)
(* transaction.                                                            *)
(***************************************************************************)
Deployer == "deployer"
Users == {"user1", "user2"}
Senders == Users \cup {Deployer}
ZeroAddress == "zero"
ThisContract == "this"
Plans == {"FREE", "BASIC", "PRO", "UNLIMITED"}

Deployed ==
    [owner |-> Deployer,
     subscriptions |-> [u \in Senders |-> [plan |-> "FREE", expiresAt |-> 0,
                                           isActive |-> FALSE]],
     balance |-> 0, received |-> 0, timestamp |-> 1, lastTx |-> "constructor"]

\* useAutoSave consumers: none is mounted, the wallet is not connected
Consumers == {"c1", "c2", "c3"}
NoHooks ==
    [wallet |-> FALSE,
     of |-> [c \in Consumers |-> [mounted |-> FALSE, dsnEnabled |-> FALSE]]]
\* no file has been exported yet
NoBackup == [kind |-> "none", chats |-> <<>>]
\* the message storage of one address: nothing saved.  local is the text
\* under aimemorybox_<address>, cid the entry of the address in
\* aimemorybox_cids, dsn the blobs uploaded; saves counts the successful
\* saves, saved is the list of the most recent one, loaded what the last
\* loadMessages returned, reached whether the archive answered it.
NoMemory ==
    [local |-> NoBlob, cid |-> NoCid, dsn |-> <<>>, saves |-> 0,
     saved |-> <<>>, phase |-> "idle", loaded |-> <<>>, reached |-> FALSE]

InitLocal ==
    /\ chats = <<>>
    /\ cidMap = [i \in ChatIds |-> NoCid]
    /\ lastSync = NoTime
    /\ saveTimers = [i \in ChatIds |-> NoTimer]
    /\ syncTimer = NoTimer
    /\ timers = {}
    /\ uploads = {}
    /\ sweeps = {}
    /\ archive = <<>>
    /\ nUp = 0
    /\ now = 1
    /\ ticks = 0
    /\ nCalls = 0
    /\ lastOp = Op("init", "", 0, NoCid)
    /\ deb = [i \in ChatIds |-> NoRun]

Init ==
    /\ InitLocal
    /\ retry = NoRetry
    /\ crypto = NoCrypto
    /\ store = NoStore
    /\ contract = Deployed
    /\ hooks = NoHooks
    /\ backup = NoBackup
    /\ memory = NoMemory

(***************************************************************************)
(* The ChatSession objects a caller passes to saveChat: a new session of   *)
(* the connected wallet created at this moment with its first message, or  *)
(* the stored session with the same messages or one more, which keeps its  *)
(* createdAt and address and carries the stored cid or none.               *)
(***************************************************************************)
SessionInputs(id) ==
    IF hasChat(chats, id)
    THEN LET old == getChatById(chats, id)
         IN {[id |-> id, messages |-> m, createdAt |-> old.createdAt,
              updatedAt |-> old.updatedAt, address |-> old.address, cid |-> k] :
                m \in {old.messages} \cup
                      {Append(old.messages, Message) : x \in
                          {y \in {1} : Len(old.messages) < MaxMessages}},
                k \in {NoCid, old.cid}}
    ELSE {[id |-> id, messages |-> <<Message>>, createdAt |-> now,
           updatedAt |-> now, address |-> Wallet, cid |-> NoCid]}

\* one more call made by the UI (useAutoSave, the dashboard)
Call == nCalls < MaxCalls /\ nCalls' = nCalls + 1

(***************************************************************************)
(* saveChat(chat, autoSaveToDSN)                                           *)
(***************************************************************************)
SaveChat(chat, autoSaveToDSN) ==
    /\ Call
    /\ chats' = upsertChat(chats, chat, now)
    /\ timers' = saveChatTimers(timers, saveTimers, chat, autoSaveToDSN, now)
    /\ saveTimers' = saveChatSaveTimers(saveTimers, chat, autoSaveToDSN)
    /\ deb' = debAfterSave(deb, chat, autoSaveToDSN, now)
    /\ lastOp' = Op("saveChat", chat.id, IF autoSaveToDSN THEN 1 ELSE 0, NoCid)
    /\ UNCHANGED <<aside, cidMap, lastSync, syncTimer, uploads, sweeps, archive,
                   nUp, now, ticks>>

(***************************************************************************)
(* The debounce timer of a session fires: saveChatToDSN(chat.id,           *)
(* chat.address) runs up to its await.  A one-shot timer leaves the host   *)
(* table when it fires; its handle stays in saveTimers.                    *)
(***************************************************************************)
DebounceFire(tm) ==
    /\ tm.kind = "timeout"
    /\ now >= tm.due
    /\ nUp + Reserved < MaxUploads
    /\ timers' = timers \ {tm}
    /\ IF hasChat(chats, tm.chatId)
       THEN /\ uploads' = uploads \cup
                  {startUpload(chats, tm.chatId, tm.address, "debounce",
                               nUp + 1, now)}
            /\ nUp' = nUp + 1
            /\ deb' = debAfterFire(deb, tm.chatId)
       ELSE UNCHANGED <<uploads, nUp, deb>>
    /\ lastOp' = Op("debounceFire", tm.chatId, nUp + 1, NoCid)
    /\ UNCHANGED <<aside, nCalls, chats, cidMap, lastSync, saveTimers, syncTimer, sweeps,
                   archive, now, ticks>>

(***************************************************************************)
(* forceSaveToDSN of useAutoSave: saveChatToDSN(chatId, address) at once   *)
(***************************************************************************)
ForceSave(chatId, address) ==
    /\ Call
    /\ hasChat(chats, chatId)
    /\ nUp + Reserved < MaxUploads
    /\ uploads' = uploads \cup
          {startUpload(chats, chatId, address, "force", nUp + 1, now)}
    /\ nUp' = nUp + 1
    /\ lastOp' = Op("forceSave", chatId, nUp + 1, NoCid)
    /\ UNCHANGED <<aside, chats, cidMap, lastSync, saveTimers, syncTimer, timers,
                   sweeps, archive, now, ticks, deb>>

(***************************************************************************)
(* syncAllChatsToDSN(address): the loop from position i of its snapshot,   *)
(* run on the store cs, with ups / sws the uploads and sweeps left by the  *)
(* caller.  It suspends in the next upload or ends by writing LAST_SYNC.   *)
(***************************************************************************)
SweepFrom(cs, ups, sws, snap, i, address) ==
    LET j == nextUploadIndex(cs, snap, i)
    IN IF j = 0
       THEN /\ uploads' = ups
            /\ sweeps' = sws
            /\ lastSync' = now
            /\ nUp' = nUp
       ELSE /\ uploads' = ups \cup
                  {startUpload(cs, snap[j].id,
                               IF address # NoAddr THEN address
                               ELSE snap[j].address,
                               "sweep", nUp + 1, now)}
            /\ sweeps' = sws \cup
                  {[snap |-> snap, i |-> j, address |-> address, n |-> nUp + 1]}
            /\ lastSync' = lastSync
            /\ nUp' = nUp + 1

\* the setInterval callback of startAutoSync
IntervalFire(tm) ==
    /\ tm.kind = "interval"
    /\ now >= tm.due
    /\ Cardinality(sweeps) < MaxSweeps
    /\ nUp + Reserved + Len(chats) <= MaxUploads
    /\ timers' = (timers \ {tm}) \cup {[tm EXCEPT !.due = now + syncIntervalMs]}
    /\ SweepFrom(chats, uploads, sweeps, chats, 1, tm.address)
    /\ lastOp' = Op("intervalFire", "", nUp + 1, NoCid)
    /\ UNCHANGED <<aside, nCalls, chats, cidMap, saveTimers, syncTimer, archive, now, ticks, deb>>

(***************************************************************************)
(* The upload awaited by a saveChatToDSN call settles.  uploadToAutoDrive  *)
(* returns the CID of the new blob, or null (cid = NoCid) for any failure. *)
(* A sweep that awaited this call goes on with its loop.                   *)
(***************************************************************************)
UploadDone(u, ok) ==
    LET cid == IF ok THEN Len(archive) + 1 ELSE NoCid
        cs == chatsAfterUpload(chats, u.id, cid)
        sw == {s \in sweeps : s.n = u.n}
    IN /\ now > u.started
       /\ archive' = IF ok THEN Append(archive, blobOf(u)) ELSE archive
       /\ chats' = cs
       /\ cidMap' = cidMapAfterUpload(cidMap, u.id, cid)
       /\ IF sw = {}
          THEN /\ uploads' = uploads \ {u}
               /\ UNCHANGED <<sweeps, lastSync, nUp>>
          ELSE LET s == CHOOSE x \in sw : TRUE
               IN SweepFrom(cs, uploads \ {u}, sweeps \ {s}, s.snap,
                            sweepResumeIndex(s, cid), s.address)
       /\ deb' = IF cs # chats THEN debTouched(deb, u.id) ELSE deb
       /\ lastOp' = [Op("uploadDone", u.id, u.n, cid) EXCEPT !.skipped =
                        IF sw = {} THEN {}
                        ELSE LET s == CHOOSE x \in sw : TRUE
                             IN skippedFrom(cs, s.snap, sweepResumeIndex(s, cid))]
       /\ UNCHANGED <<aside, nCalls, saveTimers, syncTimer, timers, now, ticks>>

(***************************************************************************)
(* loadChatFromDSN(cid) for a stored blob: download, parse, saveChat(chat, *)
(* false).  The blob is immutable, so only the moment of the save matters. *)
(***************************************************************************)
LoadChatFromDSN(cid) ==
    LET chat == JSONparse(archive[cid].data)
    IN /\ Call
       /\ chats' = upsertChat(chats, chat, now)
       /\ timers' = saveChatTimers(timers, saveTimers, chat, FALSE, now)
       /\ saveTimers' = saveChatSaveTimers(saveTimers, chat, FALSE)
       /\ deb' = debAfterSave(deb, chat, FALSE, now)
       /\ lastOp' = Op("loadChatFromDSN", chat.id, 0, cid)
       /\ UNCHANGED <<aside, cidMap, lastSync, syncTimer, uploads, sweeps, archive,
                      nUp, now, ticks>>

(***************************************************************************)
(* importChatFromJSON(jsonData): parse, check the required fields, then    *)
(* saveChat(chat, false).  jsonData is <<shape, chat>>: the text is the    *)
(* export of a session a caller could pass to saveChat ("chat"), such a    *)
(* text with an empty or missing id, or a text of another shape: not JSON, *)
(* the JSON null, an object without messages, an object whose messages are *)
(* not an array.  Whatever is thrown is caught, reported, and null is      *)
(* returned.  lastOp.n is 1 when the session was saved.                    *)
(***************************************************************************)
JsonShapes == {"chat", "notJSON", "null", "noMessages", "messagesNotArray"}

ImportInputs(id) ==
    {<<"chat", c>> : c \in
        {c \in SessionInputs(id) :
            hasChat(chats, id) => c.cid = getChatById(chats, id).cid}
        \cup {[id |-> "", messages |-> <<Message>>, createdAt |-> now,
                updatedAt |-> now, address |-> Wallet, cid |-> NoCid]}}
    \cup {<<shape, [id |-> id, messages |-> <<>>, createdAt |-> now,
                    updatedAt |-> now, address |-> Wallet, cid |-> NoCid]>> :
             shape \in JsonShapes \ {"chat"}}

\* every text is taken for a session
importValidAny(jsonData) == TRUE

\* JSON.parse returns an object, and
\* !chat.id || !chat.messages || !Array.isArray(chat.messages) is false
importValid(jsonData) ==
    /\ jsonData[1] \notin {"notJSON", "null"}
    /\ jsonData[2].id # ""
    /\ jsonData[1] \notin {"noMessages", "messagesNotArray"}

ImportChatFromJSON(jsonData) ==
    /\ Call
    /\ IF importValid(jsonData)
       THEN /\ chats' = upsertChat(chats, jsonData[2], now)
            /\ timers' = saveChatTimers(timers, saveTimers, jsonData[2], FALSE, now)
            /\ saveTimers' = saveChatSaveTimers(saveTimers, jsonData[2], FALSE)
            /\ deb' = debAfterSave(deb, jsonData[2], FALSE, now)
       ELSE UNCHANGED <<chats, timers, saveTimers, deb>>
    /\ lastOp' = Op("importChatFromJSON", jsonData[2].id,
                    IF importValid(jsonData) THEN 1 ELSE 0, NoCid)
    /\ UNCHANGED <<aside, cidMap, lastSync, syncTimer, uploads, sweeps, archive,
                   nUp, now, ticks>>

(***************************************************************************)
(* deleteChat(chatId).  lastOp.n records what it found: 1 a session,       *)
(* 2 a CID mapping entry, 4 an armed debounce timer.                       *)
(***************************************************************************)
DeleteChat(chatId) ==
    /\ Call
    /\ chats' = filterChats(chats, chatId)
    /\ cidMap' = deleteChatCidMap(cidMap, chatId)
    /\ timers' = deleteChatTimers(timers, saveTimers, chatId)
    /\ saveTimers' = [saveTimers EXCEPT ![chatId] = NoTimer]
    /\ deb' = [deb EXCEPT ![chatId] = NoRun]
    /\ lastOp' = Op("deleteChat", chatId,
                    (IF hasChat(chats, chatId) THEN 1 ELSE 0)
                    + (IF cidMap[chatId] # NoCid THEN 2 ELSE 0)
                    + (IF timeoutsOf(timers, chatId) # {} THEN 4 ELSE 0),
                    NoCid)
    /\ UNCHANGED <<aside, lastSync, syncTimer, uploads, sweeps, archive, nUp, now, ticks>>

(***************************************************************************)
(* deleteFromAutoDrive(cid): the client has no delete call; the function   *)
(* warns and returns false (also when the client is not initialised).      *)
(* lastOp.n is 1 for a returned true.                                      *)
(***************************************************************************)
\* a delete that takes the blob out of the archive
archiveAfterDeleteDrops(ar, cid) ==
    [i \in 1..(Len(ar) - 1) |-> IF i < cid THEN ar[i] ELSE ar[i + 1]]

archiveAfterDelete(ar, cid) == ar

deleteFromAutoDriveResult(ar, cid) == FALSE

DeleteFromAutoDrive(cid) ==
    /\ Call
    /\ archive' = archiveAfterDelete(archive, cid)
    /\ lastOp' = Op("deleteFromAutoDrive", "",
                    IF deleteFromAutoDriveResult(archive, cid) THEN 1 ELSE 0, cid)
    /\ UNCHANGED <<aside, chats, cidMap, lastSync, saveTimers, syncTimer, timers,
                   uploads, sweeps, nUp, now, ticks, deb>>

(***************************************************************************)
(* startAutoSync(address) / stopAutoSync().  lastOp.n is 1 when syncTimer   *)
(* held a handle before the call.                                          *)
(***************************************************************************)
StartAutoSync(address) ==
    /\ Call
    /\ timers' = startAutoSyncTimers(timers, syncTimer, address, now)
    /\ syncTimer' = startAutoSyncHandle(syncTimer)
    /\ lastOp' = Op("startAutoSync", "", IF syncTimer = NoTimer THEN 0 ELSE 1, NoCid)
    /\ UNCHANGED <<aside, chats, cidMap, lastSync, saveTimers, uploads, sweeps,
                   archive, nUp, now, ticks, deb>>

StopAutoSync ==
    /\ Call
    /\ timers' = stopAutoSyncTimers(timers, syncTimer)
    /\ syncTimer' = NoTimer
    /\ lastOp' = Op("stopAutoSync", "", IF syncTimer = NoTimer THEN 0 ELSE 1, NoCid)
    /\ UNCHANGED <<aside, chats, cidMap, lastSync, saveTimers, uploads, sweeps,
                   archive, nUp, now, ticks, deb>>

(***************************************************************************)
(* Time passes: by one tick, or up to the next moment a timer falls due.   *)
(***************************************************************************)
Tick ==
    /\ ticks < MaxTicks
    /\ \E t \in {now + TickMs} \cup {tm.due : tm \in {x \in timers : x.due > now}} :
          now' = t
    /\ ticks' = ticks + 1
    /\ UNCHANGED <<aside, nCalls, chats, cidMap, lastSync, saveTimers, syncTimer, timers,
                   uploads, sweeps, archive, nUp, lastOp, deb>>

Next ==
    \/ \E id \in ChatIds : \E chat \in SessionInputs(id) :
          \E autoSaveToDSN \in BOOLEAN : SaveChat(chat, autoSaveToDSN)
    \/ \E tm \in timers : DebounceFire(tm)
    \/ \E id \in ChatIds : \E a \in CallerAddresses : ForceSave(id, a)
    \/ \E tm \in timers : IntervalFire(tm)
    \/ \E u \in uploads : \E ok \in BOOLEAN : UploadDone(u, ok)
    \/ \E cid \in 1..Len(archive) : LoadChatFromDSN(cid)
    \/ \E id \in ChatIds : \E jsonData \in ImportInputs(id) :
          ImportChatFromJSON(jsonData)
    \/ \E id \in ChatIds : DeleteChat(id)
    \/ \E cid \in 1..Len(archive) : DeleteFromAutoDrive(cid)
    \/ \E a \in CallerAddresses : StartAutoSync(a)
    \/ StopAutoSync
    \/ Tick

Spec == Init /\ [][Next]_vars

(***************************************************************************)
(* One archive call: uploadToAutoDrive / downloadFromAutoDrive get the     *)
(* client (null without the API key: a DSNError is thrown before any       *)
(* attempt), then run the operation under retryDSNOperation; whatever is   *)
(* thrown is caught, reported and turned into a returned null.  "withRetry"*)
(* is a direct use of withRetry with the default configuration.            *)
(***************************************************************************)
local == <<chats, cidMap, lastSync, saveTimers, syncTimer, timers, uploads,
           sweeps, archive, nUp, now, ticks, nCalls, lastOp, deb>>

ArchiveOps == {"upload", "download"}

\* what the operation of a call can throw
CausesOf(op) ==
    IF op \in ArchiveOps THEN TransientCauses \cup PermanentCauses
    ELSE TransientCauses \cup WalletCauses

StartArchiveCall(op, hasClient) ==
    /\ retry.phase = "idle"
    /\ retry' = IF hasClient
                THEN [NoRetry EXCEPT !.phase = "calling", !.op = op,
                                     !.config = retryDSNConfig,
                                     !.attempt = 1, !.calls = 1]
                ELSE [NoRetry EXCEPT !.phase = "failed", !.op = op,
                                     !.config = retryDSNConfig,
                                     !.lastError = "missingCredential"]
    /\ UNCHANGED <<local, crypto, store, rest>>

\* { ...DEFAULT_RETRY_CONFIG, ...config }: the default, or a caller's lower
\* maxDelay, which the second wait would exceed
WithRetryConfigs ==
    {DEFAULT_RETRY_CONFIG, [DEFAULT_RETRY_CONFIG EXCEPT !.maxDelay = 1500]}

StartWithRetry(config) ==
    /\ retry.phase = "idle"
    /\ retry' = [NoRetry EXCEPT !.phase = "calling", !.op = "withRetry",
                                !.config = config,
                                !.attempt = 1, !.calls = 1]
    /\ UNCHANGED <<local, crypto, store, rest>>

\* `return await operation()` succeeds
AttemptReturns ==
    /\ retry.phase = "calling"
    /\ retry' = [retry EXCEPT !.phase = "returned"]
    /\ UNCHANGED <<local, crypto, store, rest>>

\* the catch block of the loop
AttemptThrows(error) ==
    /\ retry.phase = "calling"
    /\ error \in CausesOf(retry.op)
    /\ retry' =
          IF isLastAttempt(retry.attempt, retry.config) \/ ~shouldRetry(error)
          THEN [retry EXCEPT !.phase = "failed", !.lastError = error,
                             !.errors = Append(@, error)]
          ELSE [retry EXCEPT !.phase = "sleeping", !.lastError = error,
                             !.errors = Append(@, error),
                             !.slept = Append(@, calculateDelay(retry.attempt,
                                                                retry.config))]
    /\ UNCHANGED <<local, crypto, store, rest>>

\* `await sleep(delay)` is over: attempt++, the loop test, the next call,
\* or `throw lastError` behind the loop
SleepEnds ==
    /\ retry.phase = "sleeping"
    /\ retry' =
          IF retry.attempt + 1 <= retry.config.maxAttempts
          THEN [retry EXCEPT !.phase = "calling", !.attempt = @ + 1,
                             !.calls = @ + 1]
          ELSE [retry EXCEPT !.phase = "failed", !.attempt = @ + 1]
    /\ UNCHANGED <<local, crypto, store, rest>>

NextRetry ==
    \/ \E op \in ArchiveOps : \E hasClient \in BOOLEAN :
          StartArchiveCall(op, hasClient)
    \/ \E config \in WithRetryConfigs : StartWithRetry(config)
    \/ AttemptReturns
    \/ \E error \in TransientCauses \cup PermanentCauses \cup WalletCauses :
          AttemptThrows(error)
    \/ SleepEnds

SpecRetry == Init /\ [][NextRetry]_vars

(***************************************************************************)
(* saveChat and getLocalChats on a storage whose writes can fail (quota,   *)
(* serialisation) and whose text can be damaged from outside.  lastOp.cid  *)
(* of a saveChat is 1 when the write went through; lastOp.n of a           *)
(* getLocalChats is the length of the returned array.                      *)
(***************************************************************************)
SaveChatStore(chat, autoSaveToDSN, writeOk) ==
    LET cs == getLocalChats(chats, store)
        st == storeAfterSetItem(store, writeOk)
    IN /\ Call
       /\ ~store.threw
       /\ chats' = chatsAfterSetItem(chats, upsertChat(cs, chat, now), writeOk)
       /\ store' = st
       /\ IF st.threw
          THEN UNCHANGED <<timers, saveTimers, deb>>
          ELSE /\ timers' = saveChatTimers(timers, saveTimers, chat,
                                           autoSaveToDSN, now)
               /\ saveTimers' = saveChatSaveTimers(saveTimers, chat, autoSaveToDSN)
               /\ deb' = debAfterSave(deb, chat, autoSaveToDSN, now)
       /\ lastOp' = Op("saveChat", chat.id, IF autoSaveToDSN THEN 1 ELSE 0,
                       IF writeOk THEN 1 ELSE 0)
       /\ UNCHANGED <<cidMap, lastSync, syncTimer, uploads, sweeps, archive,
                      nUp, now, ticks, retry, crypto, rest>>

\* deleteChat on that storage: getLocalChats, filter, saveLocalChats, then
\* the CID mapping and the timer.  lastOp.cid is 1 when the write went
\* through.
DeleteChatStore(chatId, writeOk) ==
    LET cs == getLocalChats(chats, store)
    IN /\ Call
       /\ ~store.threw
       /\ chats' = chatsAfterSetItem(chats, filterChats(cs, chatId), writeOk)
       /\ store' = storeAfterSetItem(store, writeOk)
       /\ cidMap' = deleteChatCidMap(cidMap, chatId)
       /\ timers' = deleteChatTimers(timers, saveTimers, chatId)
       /\ saveTimers' = [saveTimers EXCEPT ![chatId] = NoTimer]
       /\ deb' = [deb EXCEPT ![chatId] = NoRun]
       /\ lastOp' = Op("deleteChat", chatId,
                       IF hasChat(cs, chatId) THEN 1 ELSE 0,
                       IF writeOk THEN 1 ELSE 0)
       /\ UNCHANGED <<lastSync, syncTimer, uploads, sweeps, archive,
                      nUp, now, ticks, retry, crypto, rest>>

GetLocalChats ==
    /\ Call
    /\ ~store.threw
    /\ lastOp' = Op("getLocalChats", "", Len(getLocalChats(chats, store)), NoCid)
    /\ UNCHANGED <<chats, cidMap, lastSync, saveTimers, syncTimer, timers,
                   uploads, sweeps, archive, nUp, now, ticks, deb, aside>>

\* something else writes a text that is not JSON under the chats key
StorageDamaged ==
    /\ ~store.corrupt
    /\ ~store.threw
    /\ store' = [store EXCEPT !.corrupt = TRUE]
    /\ UNCHANGED <<local, retry, crypto, rest>>

NextStore ==
    \/ \E id \in ChatIds : \E chat \in SessionInputs(id) :
          \E autoSaveToDSN \in BOOLEAN : \E writeOk \in BOOLEAN :
             SaveChatStore(chat, autoSaveToDSN, writeOk)
    \/ \E id \in ChatIds : \E writeOk \in BOOLEAN : DeleteChatStore(id, writeOk)
    \/ GetLocalChats
    \/ StorageDamaged
    \/ Tick

SpecStore == Init /\ [][NextStore]_vars

(***************************************************************************)
(* The encryption utilities at work: a text or a message array is          *)
(* encrypted for an address, the blob may be damaged where it is kept, and *)
(* it is decrypted with some address.                                      *)
(***************************************************************************)
Addresses == {"0xabc", "0xABC", "0xdef"}
IVs == {"iv1", "iv2"}
Salts == {"salt1", "salt2"}

RECURSIVE SeqsUpTo(_, _)
SeqsUpTo(S, n) ==
    IF n = 0 THEN {<<>>}
    ELSE LET shorter == SeqsUpTo(S, n - 1)
         IN shorter \cup {Append(q, x) : q \in shorter, x \in S}

Texts == SeqsUpTo(Chars, MaxText)
MessageArrays == SeqsUpTo(SeqsUpTo(Chars, 1), MaxText)

CryptoFns == {"encryptData", "encryptMessagesWithData", "encrypt", "encryptMessages"}

encryptWith(fn, data, messages, address, salt, iv) ==
    CASE fn = "encryptData" -> encryptData(data, address, iv)
      [] fn = "encryptMessagesWithData" -> encryptMessagesWithData(messages, address, iv)
      [] fn = "encrypt" -> encrypt(data, generatePasswordFromAddress(address), salt, iv)
      [] OTHER -> encryptMessages(messages, address, salt, iv)

decryptWith(fn, blob, address) ==
    CASE fn = "encryptData" -> decryptData(blob, address)
      [] fn = "encryptMessagesWithData" -> decryptMessagesWithData(blob, address)
      [] fn = "encrypt" -> decrypt(blob, generatePasswordFromAddress(address))
      [] OTHER -> decryptMessages(blob, address)

EncryptCall(fn, data, messages, address, salt, iv) ==
    /\ crypto.phase = "idle"
    /\ crypto' = [crypto EXCEPT !.phase = "encrypted", !.fn = fn,
                                !.data = data, !.messages = messages,
                                !.address = address,
                                !.blob = encryptWith(fn, data, messages, address, salt, iv)]
    /\ UNCHANGED <<local, retry, store, rest>>

\* the kept blob loses its last bytes, has a byte changed, or is replaced
\* by a text that is not base64 (not JSON)
BlobDamaged(damage) ==
    /\ crypto.phase = "encrypted"
    /\ crypto.damage = "none"
    /\ ~crypto.blob.null
    /\ crypto' = [crypto EXCEPT
           !.damage = damage,
           !.blob = CASE damage = "truncated" -> [@ EXCEPT !.cut = 1]
                      [] damage = "corrupted" -> [@ EXCEPT !.flipped = TRUE]
                      [] OTHER -> [@ EXCEPT !.valid = FALSE]]
    /\ UNCHANGED <<local, retry, store, rest>>

DecryptCall(address) ==
    /\ crypto.phase = "encrypted"
    /\ crypto' = [crypto EXCEPT !.phase = "decrypted", !.with = address,
                                !.out = decryptWith(crypto.fn, crypto.blob, address)]
    /\ UNCHANGED <<local, retry, store, rest>>

NextCrypto ==
    \/ \E fn \in {"encryptData", "encrypt"}, data \in Texts,
          address \in Addresses, salt \in Salts, iv \in IVs :
          EncryptCall(fn, data, <<>>, address, salt, iv)
    \/ \E fn \in {"encryptMessagesWithData", "encryptMessages"},
          messages \in MessageArrays,
          address \in Addresses, salt \in Salts, iv \in IVs :
          EncryptCall(fn, <<>>, messages, address, salt, iv)
    \/ \E damage \in {"truncated", "corrupted", "notBase64"} : BlobDamaged(damage)
    \/ \E address \in Addresses : DecryptCall(address)

SpecCrypto == Init /\ [][NextCrypto]_vars

(***************************************************************************)
(* Transactions of the Subscription contract.  A transaction whose require *)
(* fails is reverted and leaves no trace: its action is not enabled.       *)
(***************************************************************************)
others == <<retry, crypto, store, hooks, backup, memory>>

\* owner.call{value: msg.value}(""): the value leaves the contract, unless
\* the owner is the contract itself, whose receive() takes it back
balanceAfterForward(c, value) ==
    IF c.owner = ThisContract THEN c.balance + value ELSE c.balance

\* receive() external payable: the value stays with the contract
balanceAfterReceive(c, value) == c.balance + value

Subscribe(sender, plan, duration, value) ==
    /\ plan # "FREE"
    /\ duration > 0
    /\ value > 0
    /\ contract.received + value <= MaxWei
    /\ LET sub == contract.subscriptions[sender]
           expiresAt == IF sub.isActive /\ sub.expiresAt > contract.timestamp
                        THEN sub.expiresAt + duration
                        ELSE contract.timestamp + duration
       IN contract' = [contract EXCEPT
              !.subscriptions[sender] =
                  [plan |-> plan, expiresAt |-> expiresAt, isActive |-> TRUE],
              !.balance = balanceAfterForward(contract, value),
              !.received = @ + value,
              !.lastTx = "subscribe"]
    /\ UNCHANGED <<local, others>>

ExtendSubscription(sender, duration, value) ==
    /\ duration > 0
    /\ value > 0
    /\ contract.received + value <= MaxWei
    /\ contract.subscriptions[sender].isActive
    /\ contract.subscriptions[sender].plan # "FREE"
    /\ contract' = [contract EXCEPT
           !.subscriptions[sender].expiresAt =
               IF @ > contract.timestamp THEN @ + duration
               ELSE contract.timestamp + duration,
           !.balance = balanceAfterForward(contract, value),
           !.received = @ + value,
           !.lastTx = "extendSubscription"]
    /\ UNCHANGED <<local, others>>

CancelSubscription(sender) ==
    /\ contract.subscriptions[sender].isActive
    /\ contract' = [contract EXCEPT !.subscriptions[sender].isActive = FALSE,
                                    !.lastTx = "cancelSubscription"]
    /\ UNCHANGED <<local, others>>

TransferOwnership(sender, newOwner) ==
    /\ sender = contract.owner
    /\ newOwner # ZeroAddress
    /\ contract' = [contract EXCEPT !.owner = newOwner,
                                    !.lastTx = "transferOwnership"]
    /\ UNCHANGED <<local, others>>

\* a plain payment to the contract
Receive(sender, value) ==
    /\ contract.received + value <= MaxWei
    /\ contract' = [contract EXCEPT
           !.balance = balanceAfterReceive(contract, value),
           !.received = @ + value,
           !.lastTx = "receive"]
    /\ UNCHANGED <<local, others>>

\* block.timestamp of the next block
BlockMined ==
    /\ contract.timestamp < MaxBlockTime
    /\ contract' = [contract EXCEPT !.timestamp = @ + 1]
    /\ UNCHANGED <<local, others>>

NextContract ==
    \/ \E sender \in Senders, plan \in Plans, duration \in 0..1, value \in 0..MaxWei :
          Subscribe(sender, plan, duration, value)
    \/ \E sender \in Senders, duration \in 0..1, value \in 0..MaxWei :
          ExtendSubscription(sender, duration, value)
    \/ \E sender \in Senders : CancelSubscription(sender)
    \/ \E sender \in Senders, newOwner \in Senders \cup {ZeroAddress, ThisContract} :
          TransferOwnership(sender, newOwner)
    \/ \E sender \in Senders, value \in 0..MaxWei : Receive(sender, value)
    \/ BlockMined

SpecContract == Init /\ [][NextContract]_vars

(***************************************************************************)
(* Components that use useAutoSave.  The second effect of the hook runs    *)
(* when isConnected, address or dsnEnabled change: the cleanup of its last *)
(* run (stopAutoSync, when that run had started the sync) and then, when   *)
(* isConnected && address && dsnEnabled, startAutoSync(address).           *)
(***************************************************************************)
\* isConnected && address && dsnEnabled of a mounted consumer
hookConnected(h, c) == h.wallet /\ h.of[c].mounted /\ h.of[c].dsnEnabled

RECURSIVE runEffects(_, _, _)
\* the effect of every consumer in S starts the sync, one after the other
runEffects(S, ts, sy) ==
    IF S = {} THEN <<ts, sy>>
    ELSE LET c == CHOOSE x \in S : TRUE
         IN runEffects(S \ {c}, startAutoSyncTimers(ts, sy, Wallet, now),
                       startAutoSyncHandle(sy))

\* the component renders for the first time: dsnEnabled is still false, the
\* effect starts nothing
MountHook(c) ==
    /\ ~hooks.of[c].mounted
    /\ hooks' = [hooks EXCEPT !.of[c] = [mounted |-> TRUE, dsnEnabled |-> FALSE]]
    /\ UNCHANGED <<local, retry, crypto, store, contract, backup, memory>>

\* getAutoDriveStatus has answered: setDsnEnabled(true), the effect runs
DsnChecked(c) ==
    /\ hooks.of[c].mounted
    /\ ~hooks.of[c].dsnEnabled
    /\ hooks' = [hooks EXCEPT !.of[c].dsnEnabled = TRUE]
    /\ IF hooks.wallet
       THEN /\ timers' = startAutoSyncTimers(timers, syncTimer, Wallet, now)
            /\ syncTimer' = startAutoSyncHandle(syncTimer)
       ELSE UNCHANGED <<timers, syncTimer>>
    /\ UNCHANGED <<chats, cidMap, lastSync, saveTimers, uploads, sweeps, archive,
                   nUp, now, ticks, nCalls, lastOp, deb,
                   retry, crypto, store, contract, backup, memory>>

\* the wallet connects: the effect of every mounted consumer runs
WalletConnects ==
    /\ ~hooks.wallet
    /\ hooks' = [hooks EXCEPT !.wallet = TRUE]
    /\ LET r == runEffects({c \in Consumers : hookConnected(hooks', c)},
                           timers, syncTimer)
       IN timers' = r[1] /\ syncTimer' = r[2]
    /\ UNCHANGED <<chats, cidMap, lastSync, saveTimers, uploads, sweeps, archive,
                   nUp, now, ticks, nCalls, lastOp, deb,
                   retry, crypto, store, contract, backup, memory>>

\* the wallet disconnects: the cleanup of every effect that had started the
\* sync runs
WalletDisconnects ==
    /\ hooks.wallet
    /\ hooks' = [hooks EXCEPT !.wallet = FALSE]
    /\ IF \E c \in Consumers : hookConnected(hooks, c)
       THEN /\ timers' = stopAutoSyncTimers(timers, syncTimer)
            /\ syncTimer' = NoTimer
       ELSE UNCHANGED <<timers, syncTimer>>
    /\ UNCHANGED <<chats, cidMap, lastSync, saveTimers, uploads, sweeps, archive,
                   nUp, now, ticks, nCalls, lastOp, deb,
                   retry, crypto, store, contract, backup, memory>>

\* the component unmounts: the cleanup of its effect runs
UnmountHook(c) ==
    /\ hooks.of[c].mounted
    /\ hooks' = [hooks EXCEPT !.of[c] = [mounted |-> FALSE, dsnEnabled |-> FALSE]]
    /\ IF hookConnected(hooks, c)
       THEN /\ timers' = stopAutoSyncTimers(timers, syncTimer)
            /\ syncTimer' = NoTimer
       ELSE UNCHANGED <<timers, syncTimer>>
    /\ UNCHANGED <<chats, cidMap, lastSync, saveTimers, uploads, sweeps, archive,
                   nUp, now, ticks, nCalls, lastOp, deb,
                   retry, crypto, store, contract, backup, memory>>

NextHooks ==
    \/ \E c \in Consumers : MountHook(c)
    \/ \E c \in Consumers : DsnChecked(c)
    \/ WalletConnects
    \/ WalletDisconnects
    \/ \E c \in Consumers : UnmountHook(c)
    \/ Tick

SpecHooks == Init /\ [][NextHooks]_vars

(***************************************************************************)
(* Export and import of the dashboard.  A file is the JSON document it     *)
(* holds: "backup" the object {version, exportDate, chats} written by      *)
(* exportAllData, "array" the array written by exportMultipleChats, "chat" *)
(* the session written by exportChat.  The messages of stored sessions     *)
(* carry id, role and content.                                             *)
(***************************************************************************)
exportAllData(cs) == [kind |-> "backup", chats |-> cs]
exportMultipleChats(cs) == [kind |-> "array", chats |-> cs]
exportToJSON(chat) == [kind |-> "chat", chats |-> <<chat>>]

\* parsed.id && Array.isArray(parsed.messages) of the parsed document: a
\* backup object has neither field
importFromJSON(file) ==
    IF file.kind = "chat" /\ file.chats[1].id # ""
    THEN [ok |-> TRUE, chats |-> file.chats]
    ELSE [ok |-> FALSE, chats |-> <<>>]

\* an array is taken entry by entry, anything else as a single session
importMultipleFromJSON(file) ==
    IF file.kind = "array"
    THEN IF \A i \in 1..Len(file.chats) : file.chats[i].id # ""
         THEN [ok |-> TRUE, chats |-> file.chats]
         ELSE [ok |-> FALSE, chats |-> <<>>]
    ELSE importFromJSON(file)

RECURSIVE saveAll(_, _, _)
\* chats.forEach((chat) => saveChat(chat, false))
saveAll(cs, list, t) ==
    IF list = <<>> THEN cs
    ELSE saveAll(upsertChat(cs, Head(list), t), Tail(list), t)

RECURSIVE debAfterSaveAll(_, _, _)
debAfterSaveAll(d, list, t) ==
    IF list = <<>> THEN d
    ELSE debAfterSaveAll(debAfterSave(d, Head(list), FALSE, t), Tail(list), t)

\* Export Data
ExportAllData ==
    /\ Call
    /\ backup' = exportAllData(chats)
    /\ lastOp' = Op("exportAllData", "", Len(chats), NoCid)
    /\ UNCHANGED <<chats, cidMap, lastSync, saveTimers, syncTimer, timers,
                   uploads, sweeps, archive, nUp, now, ticks, deb,
                   retry, crypto, store, contract, hooks, memory>>

\* exportMultipleChats(chats, "json") of the stored sessions; with no
\* session it throws before any file is written
ExportMultipleChats ==
    /\ Call
    /\ backup' = IF chats = <<>> THEN backup ELSE exportMultipleChats(chats)
    /\ lastOp' = Op("exportMultipleChats", "", Len(chats), NoCid)
    /\ UNCHANGED <<chats, cidMap, lastSync, saveTimers, syncTimer, timers,
                   uploads, sweeps, archive, nUp, now, ticks, deb,
                   retry, crypto, store, contract, hooks, memory>>

\* exportChat(chat, "json") of a stored session
ExportChat(chatId) ==
    /\ Call
    /\ hasChat(chats, chatId)
    /\ backup' = exportToJSON(getChatById(chats, chatId))
    /\ lastOp' = Op("exportChat", chatId, 1, NoCid)
    /\ UNCHANGED <<chats, cidMap, lastSync, saveTimers, syncTimer, timers,
                   uploads, sweeps, archive, nUp, now, ticks, deb,
                   retry, crypto, store, contract, hooks, memory>>

\* Import Data with the exported file: handleFileImport, saveChat(chat,
\* false) for each session, then the page reloads; a rejected file is
\* logged and nothing else happens.  lastOp.n is 1 for an accepted file.
ImportData ==
    LET r == importMultipleFromJSON(backup)
    IN /\ Call
       /\ backup.kind # "none"
       /\ chats' = saveAll(chats, r.chats, now)
       /\ deb' = debAfterSaveAll(deb, r.chats, now)
       /\ IF r.ok
          THEN /\ timers' = {}
               /\ saveTimers' = [id \in ChatIds |-> NoTimer]
               /\ syncTimer' = NoTimer
          ELSE UNCHANGED <<timers, saveTimers, syncTimer>>
       /\ lastOp' = Op("importData", "", IF r.ok THEN 1 ELSE 0, NoCid)
       /\ UNCHANGED <<cidMap, lastSync, uploads, sweeps, archive, nUp, now,
                      ticks, backup, retry, crypto, store, contract, hooks,
                      memory>>

NextBackup ==
    \/ \E id \in ChatIds : \E chat \in SessionInputs(id) : SaveChat(chat, FALSE)
    \/ \E id \in ChatIds : DeleteChat(id)
    \/ ExportAllData
    \/ ExportMultipleChats
    \/ \E id \in ChatIds : ExportChat(id)
    \/ ImportData
    \/ Tick

SpecBackup == Init /\ [][NextBackup]_vars

(***************************************************************************)
(* saveMessages / loadMessages of the memory storage, with default         *)
(* options (encrypted, useDSN, fallbackToLocal), for the connected wallet. *)
(***************************************************************************)
MemoryInputs ==
    {m \in MessageArrays : m # <<>> /\ \A i \in 1..Len(m) : m[i] = <<"a">>}

\* saveMessages: encrypt, upload when the archive is available and keep the
\* CID in the mapping; otherwise write the text to local storage
saveMessages(mem, messages, address, salt, iv, dsnAvailable, uploadOk) ==
    LET data == encryptMessages(messages, address, salt, iv)
    IN IF dsnAvailable /\ uploadOk
       THEN [mem EXCEPT !.dsn = Append(@, data), !.cid = Len(mem.dsn) + 1,
                        !.saves = @ + 1, !.saved = messages, !.phase = "saved"]
       ELSE [mem EXCEPT !.local = data,
                        !.saves = @ + 1, !.saved = messages, !.phase = "saved"]

\* the text loadMessages decrypts: the blob of the mapped CID when the
\* download returns it, else the local text (null: no text at all)
loadedData(mem, downloadOk) ==
    IF mem.cid # NoCid /\ downloadOk THEN mem.dsn[mem.cid] ELSE mem.local

\* loadMessages: [] when there is no text or decryptMessages throws
loadMessages(mem, address, downloadOk) ==
    LET data == loadedData(mem, downloadOk)
        out == decryptMessages(data, address)
    IN IF data.null \/ out.threw THEN <<>> ELSE out.messages

SaveMessages(messages, salt, iv, dsnAvailable, uploadOk) ==
    /\ memory.saves < MaxSaves
    /\ memory' = saveMessages(memory, messages, Wallet, salt, iv,
                              dsnAvailable, uploadOk)
    /\ UNCHANGED <<local, retry, crypto, store, contract, hooks, backup>>

LoadMessages(downloadOk) ==
    /\ memory' = [memory EXCEPT !.phase = "loaded",
                                !.loaded = loadMessages(memory, Wallet, downloadOk),
                                !.reached = downloadOk]
    /\ UNCHANGED <<local, retry, crypto, store, contract, hooks, backup>>

NextMemory ==
    \/ \E messages \in MemoryInputs, salt \in Salts, iv \in IVs,
          dsnAvailable \in BOOLEAN, uploadOk \in BOOLEAN :
          SaveMessages(messages, salt, iv, dsnAvailable, uploadOk)
    \/ \E downloadOk \in BOOLEAN : LoadMessages(downloadOk)

SpecMemory == Init /\ [][NextMemory]_vars

(***************************************************************************)
(* Properties                                                              *)
(***************************************************************************)
TimerArmed(id) == timeoutsOf(timers, id) # {}

\* C1: whenever an upload is handed to the archive client with a wallet
\* address available, its payload is the encrypted form of the session,
\* never the plaintext JSON.
C1_UploadsEncrypted ==
    \A u \in uploads : u.address # NoAddr => u.data.enc

Uploaded(id) == \E c \in 1..Len(archive) : archive[c].data.body.id = id

\* C3: once an upload of a session id has succeeded, in every later state in
\* which the session exists getCIDForChat(id) equals the cid field of the
\* stored session.
C3_CidMappingConsistent ==
    \A id \in ChatIds :
        (hasChat(chats, id) /\ Uploaded(id)) =>
            getCIDForChat(cidMap, id) = getChatById(chats, id).cid

C5_LastWriteBackWins ==
    (lastOp.op = "uploadDone" /\ lastOp.cid # NoCid) =>
        /\ getCIDForChat(cidMap, lastOp.id) = lastOp.cid
        /\ hasChat(chats, lastOp.id) =>
              getChatById(chats, lastOp.id).cid = lastOp.cid

\* the upload that finished last started no later than another upload of the
\* same id that finished before it, carried the older state, and its CID is
\* the one recorded
C5_Witness ==
    /\ lastOp.op = "uploadDone"
    /\ lastOp.cid # NoCid
    /\ hasChat(chats, lastOp.id)
    /\ getChatById(chats, lastOp.id).cid = lastOp.cid
    /\ getCIDForChat(cidMap, lastOp.id) = lastOp.cid
    /\ \E c \in 1..(lastOp.cid - 1) :
          /\ archive[c].data.body.id = lastOp.id
          /\ archive[c].metadata.timestamp >= archive[lastOp.cid].metadata.timestamp
          /\ archive[c].data.body.updatedAt > archive[lastOp.cid].data.body.updatedAt

\* the session state was uploaded under the cid the session records
Synced(chat) ==
    /\ chat.cid # NoCid
    /\ chat.cid <= Len(archive)
    /\ archive[chat.cid].data.body.id = chat.id
    /\ archive[chat.cid].data.body.messages = chat.messages
    /\ archive[chat.cid].data.body.updatedAt = chat.updatedAt

\* nothing is under way that could still upload this session: no upload of it
\* in flight, no debounce timer armed for it, no sweep in its loop
NothingPending(id) ==
    /\ \A u \in uploads : u.id # id
    /\ ~TimerArmed(id)
    /\ sweeps = {}

\* C6: once the edits have stopped and the periodic sync is running, the cid
\* recorded for a session eventually is the CID of an upload of its final
\* state.  Stated on the states where the UI has made its last call, the
\* periodic sync is active and nothing is pending for the session: there
\* the recorded cid already is an upload of the stored state, or the next
\* sweep picks the session up (the sweep reads nothing but the stored cid,
\* updatedAt and createdAt, which only an edit or a write-back changes).
C6_EventuallyConsistent ==
    \A id \in ChatIds :
        (/\ nCalls = MaxCalls
         /\ intervalsOf(timers) # {}
         /\ hasChat(chats, id)
         /\ NothingPending(id))
        => \/ Synced(getChatById(chats, id))
           \/ eligible(getChatById(chats, id))

\* C7: when the upload inside saveChatToDSN fails, saveChatToDSN returns null
\* and the chats collection, the CID side-table and the timers are as before.
C7_FailedUploadLeavesState ==
    [][(uploads' # uploads /\ lastOp'.op = "uploadDone" /\ lastOp'.cid = NoCid)
          => /\ chats' = chats
             /\ cidMap' = cidMap
             /\ timers' = timers
             /\ saveTimers' = saveTimers
             /\ syncTimer' = syncTimer]_vars

\* an upload has just failed for a session that has a cid, a CID mapping
\* entry and an armed debounce timer
C7_Witness ==
    /\ lastOp.op = "uploadDone"
    /\ lastOp.cid = NoCid
    /\ hasChat(chats, lastOp.id)
    /\ getChatById(chats, lastOp.id).cid # NoCid
    /\ getCIDForChat(cidMap, lastOp.id) # NoCid
    /\ TimerArmed(lastOp.id)

C9_OneSyncInterval ==
    /\ Cardinality(intervalsOf(timers)) <= 1
    /\ lastOp.op = "stopAutoSync" => intervalsOf(timers) = {}
    /\ lastOp.op = "startAutoSync" => Cardinality(intervalsOf(timers)) = 1

\* startAutoSync was called while an interval was active
C9_Witness ==
    /\ lastOp.op = "startAutoSync"
    /\ lastOp.n = 1
    /\ Cardinality(intervalsOf(timers)) = 1

\* C10: at most one not-yet-fired debounce timer exists per session id;
\* saveChat leaves the uploads in flight alone, and an upload that completes
\* with a CID still writes it back.
C10_OneDebounceTimerPerId ==
    /\ [](\A id \in ChatIds : Cardinality(timeoutsOf(timers, id)) <= 1)
    /\ [][(nCalls' # nCalls /\ lastOp'.op = "saveChat") => uploads' = uploads]_vars
    /\ [][(uploads' # uploads /\ lastOp'.op = "uploadDone" /\ lastOp'.cid # NoCid)
            => cidMap'[lastOp'.id] = lastOp'.cid]_vars

\* saveChat(S, true) has just replaced the armed timer of a session while an
\* upload of that session is in flight
C10_Witness ==
    /\ lastOp.op = "saveChat"
    /\ lastOp.n = 1
    /\ deb[lastOp.id].calls = 2
    /\ Cardinality(timeoutsOf(timers, lastOp.id)) = 1
    /\ \E u \in uploads : u.id = lastOp.id

\* C11: a forced saveChatToDSN starts its upload in the step of the call,
\* with the record stored at that moment, whatever timer is armed, sweep is
\* running or upload of the same id is in flight: the step adds one upload,
\* and the call is possible whenever the session exists.
C11_ForcedSyncImmediate ==
    /\ [][(nCalls' # nCalls /\ lastOp'.op = "forceSave") =>
            \E u \in uploads' \ uploads :
                /\ uploads' = uploads \cup {u}
                /\ u.id = lastOp'.id
                /\ u.by = "force"
                /\ u.started = now
                /\ u.data = JSONstringify(getChatById(chats, lastOp'.id))]_vars
    /\ [](\A id \in ChatIds :
            (hasChat(chats, id) /\ nCalls < MaxCalls
                /\ nUp + Reserved < MaxUploads)
            => ENABLED ForceSave(id, Wallet))

\* a forced save has just started a second upload of a session while a sweep
\* awaits its own upload of that session and a debounce timer is armed for it
C11_Witness ==
    /\ lastOp.op = "forceSave"
    /\ Cardinality({u \in uploads : u.id = lastOp.id}) = 2
    /\ \E u \in uploads : u.id = lastOp.id /\ u.by = "sweep"
    /\ sweeps # {}
    /\ TimerArmed(lastOp.id)

\* the records of the collection that carry this id
recordsOf(cs, id) == {i \in 1..Len(cs) : cs[i].id = id}

LocalSaveOnly(op) ==
    \/ op.op = "saveChat" /\ op.n = 0
    \/ op.op = "loadChatFromDSN"
    \/ op.op = "importChatFromJSON"

\* C13: a save that asks for no remote sync leaves every timer, the handle
\* table and the uploads as they are, and a new debounce timer appears only
\* in a saveChat(S, true) step.
C13_OnlyAutoSaveArmsTimer ==
    /\ [][(nCalls' # nCalls /\ LocalSaveOnly(lastOp')) =>
            /\ timers' = timers
            /\ saveTimers' = saveTimers
            /\ uploads' = uploads
            /\ nUp' = nUp]_vars
    /\ [][(\E tm \in timers' \ timers : tm.kind = "timeout") =>
            (nCalls' # nCalls /\ lastOp'.op = "saveChat" /\ lastOp'.n = 1)]_vars

\* importChatFromJSON has just saved a session whose debounce timer, armed by
\* an earlier saveChat(S, true), is still armed, and no upload is in flight
C13_Witness ==
    /\ lastOp.op = "importChatFromJSON"
    /\ lastOp.n = 1
    /\ TimerArmed(lastOp.id)
    /\ getChatById(chats, lastOp.id).updatedAt = now
    /\ uploads = {}

C17_PermanentFailureNotRetried ==
    (retry.op \in ArchiveOps
        /\ \E i \in 1..Len(retry.errors) : retry.errors[i] \in PermanentCauses)
    => (retry.calls = 1 /\ retry.slept = <<>> /\ retry.phase = "failed")

\* C18: withRetry calls the operation at most maxAttempts times; after a
\* success it has made one call more than it caught errors and makes no
\* further one; a failed run ends with the last error thrown, right after the
\* last attempt or after an error that is not to be retried, having slept
\* only between two calls, each time for calculateDelay of the attempt.
C18_RetryBounded ==
    /\ [](/\ retry.calls <= retry.config.maxAttempts
           /\ (retry.phase = "returned" =>
                 (/\ retry.calls = Len(retry.errors) + 1
                  /\ Len(retry.slept) = retry.calls - 1))
           /\ ((retry.phase = "failed" /\ retry.calls >= 1) =>
                 (/\ retry.calls = Len(retry.errors)
                  /\ retry.lastError = retry.errors[Len(retry.errors)]
                  /\ Len(retry.slept) = retry.calls - 1
                  /\ \/ retry.calls = retry.config.maxAttempts
                     \/ ~shouldRetry(retry.lastError)))
           /\ \A i \in 1..Len(retry.slept) :
                 retry.slept[i] = calculateDelay(i, retry.config))
    /\ [][retry.phase \in {"returned", "failed"} => retry' = retry]_vars

\* an archive call failed four times, the last error was thrown after the
\* fourth attempt and the waits were 1, 2 and 4 seconds
C18_Witness ==
    /\ retry.op \in ArchiveOps
    /\ retry.phase = "failed"
    /\ retry.calls = 4
    /\ retry.slept = <<1000, 2000, 4000>>
    /\ retry.lastError = "network"

\* C20: a saveChat whose local-storage write fails returns normally, has
\* called setItem once, and leaves the persisted collection (and whether it
\* parses) as it was; getLocalChats on a text that does not parse returns
\* the empty array and does not throw.
C20_StorageFailureIsNoOp ==
    /\ [](~store.threw)
    /\ [][(nCalls' # nCalls /\ lastOp'.op = "saveChat") =>
            /\ store'.writes = store.writes + 1
            /\ lastOp'.cid = 0 => (chats' = chats /\ store'.corrupt = store.corrupt)]_vars
    /\ [][(nCalls' # nCalls /\ lastOp'.op = "getLocalChats" /\ store.corrupt) =>
            (lastOp'.n = 0 /\ ~store'.threw)]_vars

\* a saveChat has just failed to write over a stored collection, which is
\* still there
C20_Witness ==
    /\ lastOp.op = "saveChat"
    /\ lastOp.cid = 0
    /\ ~store.corrupt
    /\ Len(chats) = 2
    /\ hasChat(chats, lastOp.id)
    /\ getChatById(chats, lastOp.id).updatedAt < now
    /\ store.writes = 3


(***************************************************************************)
(* Encryption properties, under SpecCrypto                                 *)
(***************************************************************************)
TextFns == {"encryptData", "encrypt"}

\* C14: decrypting with address A an undamaged blob that was produced by
\* encrypting a text (a message array) with A returns that same text (that
\* same message array); it neither throws nor returns null.
C14_RoundTrip ==
    (/\ crypto.phase = "decrypted"
     /\ crypto.damage = "none"
     /\ crypto.with = crypto.address)
    => (/\ ~crypto.out.threw
        /\ ~crypto.out.null
        /\ crypto.fn \in TextFns => crypto.out.str = crypto.data
        /\ crypto.fn \notin TextFns => crypto.out.messages = crypto.messages)

\* C15: decrypting with an address B an undamaged blob that was encrypted
\* with a different address string A always throws; it never returns a
\* plaintext and never returns anything else.
C15_KeyIsolation ==
    (/\ crypto.phase = "decrypted"
     /\ crypto.damage = "none"
     /\ ~crypto.blob.null
     /\ crypto.with # crypto.address)
    => crypto.out.threw

\* C16: decrypting a blob that is not base64, is truncated or has a changed
\* byte throws, whatever the address; it returns neither a plaintext nor
\* anything else.
C16_DamagedBlobThrows ==
    (crypto.phase = "decrypted" /\ crypto.damage # "none") => crypto.out.threw

(***************************************************************************)
(* Import, the subscription contract, backoff: later properties            *)
(***************************************************************************)
\* the text is not JSON, or what it parses to lacks an id or a messages array
Malformed(jsonData) ==
    \/ jsonData[1] # "chat"
    \/ jsonData[2].id = ""

\* C21: importChatFromJSON of a text that is not valid JSON, or that lacks an
\* id or a messages array, returns null and leaves the chats collection, the
\* CID side-table and the timers unchanged.
C21_MalformedImportRejected ==
    [][\A id \in ChatIds : \A jsonData \in ImportInputs(id) :
          (Malformed(jsonData) /\ ImportChatFromJSON(jsonData)) =>
              /\ lastOp'.n = 0
              /\ chats' = chats
              /\ cidMap' = cidMap
              /\ timers' = timers
              /\ saveTimers' = saveTimers
              /\ uploads' = uploads]_vars

\* importChatFromJSON has just returned null while a session is stored, has
\* a CID mapping entry and an armed debounce timer
C21_Witness ==
    /\ lastOp.op = "importChatFromJSON"
    /\ lastOp.n = 0
    /\ \E id \in ChatIds :
          /\ hasChat(chats, id)
          /\ cidMap[id] # NoCid
          /\ TimerArmed(id)

\* C22: the subscription contract holds no funds: after the constructor and
\* after every accepted transaction its balance is zero.
C22_ContractHoldsNoFunds == contract.balance = 0

\* initialDelay * backoffMultiplier^(k-1), capped at maxDelay
backoff(k, config) ==
    Min({config.initialDelay * config.backoffMultiplier ^ (k - 1), config.maxDelay})

\* C23: the k-th wait of a withRetry call is
\* min(initialDelay * backoffMultiplier^(k-1), maxDelay); the waits do not
\* decrease and none exceeds maxDelay; an archive call waits 1 s, 2 s, 4 s;
\* a failed attempt that is the last one, or whose error is not to be
\* retried, is followed by no wait.
C23_BackoffDelays ==
    /\ [](/\ \A k \in 1..Len(retry.slept) :
                /\ retry.slept[k] = backoff(k, retry.config)
                /\ retry.slept[k] <= retry.config.maxDelay
                /\ k > 1 => retry.slept[k - 1] <= retry.slept[k]
           /\ (retry.op \in ArchiveOps =>
                 \E n \in 0..3 : retry.slept = SubSeq(<<1000, 2000, 4000>>, 1, n))
           /\ (retry.phase = "sleeping" => Len(retry.slept) = Len(retry.errors))
           /\ (retry.phase \in {"calling", "returned"} =>
                 Len(retry.slept) = Len(retry.errors)))
    /\ [][(Len(retry'.errors) > Len(retry.errors)
            /\ \/ Len(retry'.errors) = retry.config.maxAttempts
               \/ ~shouldRetry(retry'.lastError))
           => (retry'.slept = retry.slept /\ retry'.phase = "failed")]_vars

\* a withRetry call with maxDelay 1500 has failed three times: its second
\* wait was capped
C23_Witness ==
    /\ retry.op = "withRetry"
    /\ retry.phase = "failed"
    /\ retry.config.maxDelay = 1500
    /\ retry.slept = <<1000, 1500>>
    /\ Len(retry.errors) = 3

\* C24: every key of the CID side-table is the id of a stored session; an
\* upload that completes after deleteChat(id) brings back no entry for id.
C24_CidMapKeysAreStored ==
    \A id \in ChatIds : cidMap[id] # NoCid => hasChat(chats, id)

\* C25: an upload starts only for an id that is stored when it starts, with
\* the stored record as its payload; a sweep that reaches an id deleted
\* since its snapshot starts no upload for it and leaves the store, the CID
\* side-table and the timers of that id as they are.
C25_UploadOnlyOfStoredSession ==
    /\ [][\A u \in uploads' \ uploads :
             /\ hasChat(chats', u.id)
             /\ u.data = JSONstringify(getChatById(chats', u.id))
             /\ u.started = now]_vars
    /\ [][(lastOp' # lastOp \/ nUp' # nUp) =>
             \A id \in lastOp'.skipped :
                /\ ~hasChat(chats, id)
                /\ ~hasChat(chats', id)
                /\ ~\E u \in uploads' \ uploads : u.id = id
                /\ cidMap'[id] = cidMap[id]
                /\ saveTimers'[id] = saveTimers[id]
                /\ timeoutsOf(timers', id) = timeoutsOf(timers, id)]_vars

\* a sweep has just gone past a session that was deleted after the sweep
\* took its snapshot, and ended without an upload for it
C25_Witness ==
    /\ lastOp.op = "uploadDone"
    /\ lastOp.skipped # {}
    /\ lastSync = now
    /\ sweeps = {}
    /\ uploads = {}

\* the session records stored under this id
sessionsOf(cs, id) == {cs[i] : i \in recordsOf(cs, id)}

\* C26: saveChat(S, _) and deleteChat(id) change the data of that session
\* id only: the records of every other id under the chats key, its CID
\* mapping entry and its debounce timer are as before, also when the stored
\* chats text could not be parsed.
C26_OnlyThatSessionChanges ==
    [][(nCalls' # nCalls /\ lastOp'.op \in {"saveChat", "deleteChat"}) =>
          \A id \in ChatIds \ {lastOp'.id} :
             /\ sessionsOf(chats', id) = sessionsOf(chats, id)
             /\ cidMap'[id] = cidMap[id]
             /\ saveTimers'[id] = saveTimers[id]
             /\ timeoutsOf(timers', id) = timeoutsOf(timers, id)]_vars

\* the later entries of the snapshot of sweep s that are eligible and still
\* stored in cs
laterEligible(s, cs) ==
    {j \in (s.i + 1)..Len(s.snap) :
        eligible(s.snap[j]) /\ hasChat(cs, s.snap[j].id)}

\* C27: when the upload a sweep awaits has settled, failed or not, the sweep
\* starts the upload of the next eligible session of its snapshot, and when
\* none is left it ends and writes the last-sync time.
C27_FailedUploadKeepsSweep ==
    [][\A s \in sweeps :
          (lastOp' # lastOp /\ lastOp'.op = "uploadDone" /\ lastOp'.n = s.n) =>
             IF laterEligible(s, chats') = {}
             THEN /\ sweeps' = sweeps \ {s}
                  /\ lastSync' = now
                  /\ uploads' \subseteq uploads
             ELSE LET j == Min(laterEligible(s, chats'))
                  IN /\ lastSync' = lastSync
                     /\ \E u \in uploads' \ uploads :
                           /\ u.id = s.snap[j].id
                           /\ u.by = "sweep"
                           /\ sweeps' = (sweeps \ {s}) \cup
                                 {[s EXCEPT !.i = j, !.n = u.n]}]_vars

\* the first upload of a sweep over two sessions has just failed and the
\* sweep has started the upload of the second session
C27_Witness ==
    /\ lastOp.op = "uploadDone"
    /\ lastOp.cid = NoCid
    /\ \E s \in sweeps :
          /\ s.i = 2
          /\ eligible(s.snap[1])
          /\ s.snap[1].id = lastOp.id
          /\ s.n = nUp
          /\ lastOp.n = s.n - 1
          /\ \E u \in uploads : u.n = s.n /\ u.id = s.snap[2].id

\* C28: while a connected useAutoSave consumer is mounted, a periodic sync
\* interval is active: the cleanup of another consumer does not stop it.
C28_SyncWhileConsumerMounted ==
    (\E c \in Consumers : hookConnected(hooks, c))
        => (syncTimer # NoTimer /\ intervalsOf(timers) # {})

\* C29: the file written by Export Data is accepted by Import Data, and
\* after the import every exported session is stored with the same id and
\* the same messages.
C29_BackupRoundTrip ==
    (lastOp.op = "importData" /\ backup.kind = "backup") =>
        /\ lastOp.n = 1
        /\ \A i \in 1..Len(backup.chats) :
              /\ hasChat(chats, backup.chats[i].id)
              /\ getChatById(chats, backup.chats[i].id).messages
                    = backup.chats[i].messages

\* C30: after saveMessages calls that each uploaded or fell back to local
\* storage, a loadMessages, with the archive answering, returns the list of
\* the most recent save: not an older list and not the empty list.
C30_LoadReturnsLatestSave ==
    (memory.phase = "loaded" /\ memory.reached /\ memory.saves >= 1)
        => memory.loaded = memory.saved

====
